---------------------------- MODULE Spec2Model ----------------------------
(***************************************************************************)
(* A model of src/server.js: the Akinator backend.  One POST /api/step     *)
(* request is followed from its arrival to its response: the prompt is     *)
(* built, callFireworks is invoked up to three times (each with a primary  *)
(* completion call and, when the text cannot be interpreted, one repair    *)
(* call), and the action is validated and checked against the history by   *)
(* isRepeat.                                                               *)
(*                                                                         *)
(* Spec follows one request; FairSpec adds that every completion call ends *)
(* and the handler resumes; TwoSpec follows two requests at once;          *)
(* RepeatSpec and ExtractSpec apply isRepeat and extractJson to bounded    *)
(* sets of arguments.                                                      *)
(*                                                                         *)
(* Strings are sequences of one-character strings, so that norm, tokens    *)
(* and includes are computed character by character as the code does.      *)
(***************************************************************************)
EXTENDS Integers, Sequences, FiniteSets, TLC

(***************************************************************************)
(* Strings                                                                 *)
(***************************************************************************)
Lowers == <<"a","b","c","d","e","f","g","h","i","j","k","l","m",
            "n","o","p","q","r","s","t","u","v","w","x","y","z">>

Uppers == <<"A","B","C","D","E","F","G","H","I","J","K","L","M",
            "N","O","P","Q","R","S","T","U","V","W","X","Y","Z">>

Digits == {"0","1","2","3","4","5","6","7","8","9"}

Range(f) == { f[i] : i \in DOMAIN f }

\* the lower-case letter of every upper-case letter
LowerOf ==
    [c \in Range(Uppers) |-> Lowers[CHOOSE i \in DOMAIN Uppers : Uppers[i] = c]]

\* String.prototype.toLowerCase, one character
ToLowerChar(c) == IF c \in DOMAIN LowerOf THEN LowerOf[c] ELSE c

\* String.prototype.toLowerCase
toLowerCase(s) == [i \in 1..Len(s) |-> ToLowerChar(s[i])]

Spaces == {" ", "\t", "\n"}

\* the class \s of the regular expressions of norm
IsSpace(c) == c \in Spaces

KeptChars == Range(Lowers) \cup Digits \cup Spaces

\* the class [a-z0-9\s], whose complement norm replaces by a space
IsKept(c) == c \in KeptChars

\* .replace(/[^a-z0-9\s]/g, ' ')
ReplaceOthers(s) == [i \in 1..Len(s) |-> IF IsKept(s[i]) THEN s[i] ELSE " "]

\* the indices of s, in order
Indices(s) == [i \in 1..Len(s) |-> i]

\* .replace(/\s+/g, ' '): every run of whitespace becomes one space
CollapseSpaces(s) ==
    LET EndsRun(i) == ~IsSpace(s[i]) \/ i = Len(s) \/ ~IsSpace(s[i + 1])
        Collapsed(kept) ==
            [j \in 1..Len(kept) |->
                IF IsSpace(s[kept[j]]) THEN " " ELSE s[kept[j]]]
    IN  CHOOSE t \in { Collapsed(kept) :
                         kept \in {SelectSeq(Indices(s), EndsRun)} } : TRUE

\* s without its leading whitespace
TrimLeft(s) ==
    IF \A i \in 1..Len(s) : IsSpace(s[i]) THEN <<>>
    ELSE LET first == CHOOSE i \in 1..Len(s) :
                         ~IsSpace(s[i]) /\ \A j \in 1..(i - 1) : IsSpace(s[j])
         IN  SubSeq(s, first, Len(s))

\* s without its trailing whitespace
TrimRight(s) ==
    IF \A i \in 1..Len(s) : IsSpace(s[i]) THEN <<>>
    ELSE LET last == CHOOSE i \in 1..Len(s) :
                        ~IsSpace(s[i]) /\ \A j \in (i + 1)..Len(s) : IsSpace(s[j])
         IN  SubSeq(s, 1, last)

\* String.prototype.trim (the string trimmed on the left is computed once)
trim(s) == CHOOSE t \in { TrimRight(left) : left \in {TrimLeft(s)} } : TRUE

\* norm(s): lower case, everything outside [a-z0-9\s] to a space, runs of
\* whitespace to one space, trimmed
\* (each intermediate string is bound to a name, so that it is computed once)
norm(s) ==
    CHOOSE n \in
        { trim(collapsed) :
            collapsed \in { CollapseSpaces(replaced) :
                replaced \in { ReplaceOthers(lowered) :
                    lowered \in { toLowerCase(string) :
                        string \in {s} } } } } : TRUE

\* String.prototype.split(' '): the pieces between the spaces, empty ones too
split(s) ==
    LET IsCut(i) == s[i] = " "
        cuts == <<0>> \o SelectSeq(Indices(s), IsCut) \o <<Len(s) + 1>>
    IN  [j \in 1..(Len(cuts) - 1) |-> SubSeq(s, cuts[j] + 1, cuts[j + 1] - 1)]

\* the stop words of STOP
STOP == {
    <<"t","h","e">>, <<"a">>, <<"a","n">>, <<"i","s">>, <<"a","r","e">>,
    <<"w","a","s">>, <<"w","e","r","e">>, <<"d","o">>, <<"d","o","e","s">>,
    <<"d","i","d">>, <<"h","a","s">>, <<"h","a","v","e">>, <<"h","a","d">>,
    <<"o","f">>, <<"t","o">>, <<"i","n">>, <<"o","n">>, <<"f","o","r">>,
    <<"w","i","t","h">>, <<"w","i","t","h","o","u","t">>, <<"a","b","o","u","t">>,
    <<"f","r","o","m">>, <<"a","t">>, <<"b","y">>, <<"a","s">>, <<"b","e">>,
    <<"b","e","e","n">>, <<"b","e","i","n","g">>,
    <<"c","h","a","r","a","c","t","e","r">>, <<"p","e","r","s","o","n">>,
    <<"h","u","m","a","n">>, <<"s","o","m","e","o","n","e">>,
    <<"s","o","m","e","b","o","d","y">>, <<"m","a","l","e">>,
    <<"f","e","m","a","l","e">>, <<"m","a","n">>, <<"w","o","m","a","n">>,
    <<"g","u","y">>, <<"g","i","r","l">>, <<"b","o","y">>, <<"c","h","i","l","d">>,
    <<"a","d","u","l","t">>, <<"o","l","d">>, <<"y","o","u","n","g">>, <<"a","g","e">>,
    <<"b","i","g">>, <<"s","m","a","l","l">>, <<"s","a","m","e">>,
    <<"s","i","m","i","l","a","r">>, <<"r","e","p","e","a","t">>,
    <<"r","e","p","e","a","t","e","d">>, <<"r","e","p","e","a","t","i","n","g">>,
    <<"a","n","y">>
}

IsToken(w) == w # <<>> /\ w \notin STOP

\* .split(' ').filter(w => w && !STOP.has(w)) of a normalised string
Words(n) == SelectSeq(split(n), IsToken)

\* tokens(s): the words of norm(s) that are not empty and not stop words
tokens(s) == Words(norm(s))

\* jaccard(a, b) as the fraction inter / union, 0 when the union is empty
jaccard(a, b) ==
    LET A == Range(a)
        B == Range(b)
        inter == Cardinality(A \cap B)
        union == Cardinality(A) + Cardinality(B) - inter
    IN  IF union # 0 THEN [num |-> inter, den |-> union]
        ELSE [num |-> 0, den |-> 1]

\* sim >= 0.7
AtLeastThreshold(sim) == 10 * sim.num >= 7 * sim.den

\* String.prototype.includes: b occurs in a (the empty b always does)
includes(a, b) ==
    \E i \in 0..(Len(a) - Len(b)) : SubSeq(a, i + 1, i + Len(b)) = b

\* one turn of the loop of isRepeat: the question against one history entry
RepeatsEntry(question, h) ==
    \E a \in {norm(question)}, b \in {norm(h.q)} :
        \/ AtLeastThreshold(jaccard(Words(a), Words(b)))
        \/ includes(a, b)
        \/ includes(b, a)

\* a request without history has every question rejected
isRepeatOfNothing(question, history) ==
    \/ history = <<>>
    \/ \E i \in 1..Len(history) : RepeatsEntry(question, history[i])

\* only the latest entry of the history is compared
isRepeatOfLatestOnly(question, history) ==
    /\ history # <<>>
    /\ RepeatsEntry(question, history[Len(history)])

\* isRepeat(question, history): true at the first entry that matches
isRepeat(question, history) ==
    \E i \in 1..Len(history) : RepeatsEntry(question, history[i])


(***************************************************************************)
(* JavaScript values and the objects a completion can hold                  *)
(***************************************************************************)
\* A value of a JSON member: undefined (the member is absent or null), a
\* string, a finite number (confidences are counted in tenths) or an
\* infinite number (JSON.parse("1e999")).
Undefined == [k |-> "undefined", s |-> <<>>, n |-> 0]

Str(x) == [k |-> "string", s |-> x, n |-> 0]

Num(x) == [k |-> "number", s |-> <<>>, n |-> x]

Infinite == [k |-> "infinity", s |-> <<>>, n |-> 0]

\* The type member is kept as the class the code can tell apart: the three
\* literals it compares with, "banana" for any other truthy value, "" for a
\* falsy value that is present and "undefined" for an absent member.
TypeTags == {"ask", "guess", "final", "banana", "", "undefined"}

\* !obj.type is false
TypeTruthy(t) == t \notin {"", "undefined"}

\* what extractJson returns for a text that holds no object
Null == [type |-> "null", question |-> Undefined, guess |-> Undefined,
         confidence |-> Undefined]

\* JSON.parse("{}")
EmptyObject == [type |-> "undefined", question |-> Undefined,
                guess |-> Undefined, confidence |-> Undefined]

Min(a, b) == IF a < b THEN a ELSE b

Max(a, b) == IF a > b THEN a ELSE b

\* String.prototype.slice(0, n)
slice(s, n) == SubSeq(s, 1, Min(n, Len(s)))

\* String(v || '') for a member that is a string or undefined
StringOrEmpty(v) == IF v.k = "string" THEN v.s ELSE <<>>

QuestionMax == 200

GuessMax == 120

\* the confidence of the model passed on as it came
ConfidenceNotClamped(c) == IF c.k = "number" THEN c.n ELSE 0

\* Number.isFinite(c) ? Math.max(0, Math.min(1, Number(c))) : 0, in tenths
Confidence(c) == IF c.k = "number" THEN Max(0, Min(10, c.n)) ELSE 0

\* obj.question = String(obj.question || '').slice(0, 200)
AskNormalised(o) ==
    [o EXCEPT !.question = Str(slice(StringOrEmpty(o.question), QuestionMax))]

\* obj.guess = String(obj.guess || '').slice(0, 120); obj.confidence = ...
GuessNormalised(o) ==
    [o EXCEPT !.guess = Str(slice(StringOrEmpty(o.guess), GuessMax)),
              !.confidence = Num(Confidence(o.confidence))]

(***************************************************************************)
(* extractJson.  A completion text is a sequence of lexical pieces and the *)
(* object its member list denotes: "members" is a well-formed member list, *)
(* "members'" one whose string values are single-quoted, "members~" one    *)
(* written with curly quotes, "junk" text that is no JSON, "prose" text    *)
(* without braces, "fence" and "fence-json" the markdown code-fence        *)
(* markers.                                                                *)
(***************************************************************************)
EmptyText == [toks |-> <<>>, body |-> EmptyObject]

\* the index of the first "</think>" of t, 0 if there is none
FirstClose(t) ==
    IF \E i \in DOMAIN t : t[i] = "</think>"
    THEN CHOOSE i \in DOMAIN t :
            /\ t[i] = "</think>"
            /\ \A j \in 1..(i - 1) : t[j] # "</think>"
    ELSE 0

\* .replace(/<think>[\s\S]*?<\/think>/gi, '')
RECURSIVE StripThink(_)
StripThink(t) ==
    IF t = <<>> THEN <<>>
    ELSE IF Head(t) = "<think>" /\ FirstClose(t) # 0
         THEN StripThink(SubSeq(t, FirstClose(t) + 1, Len(t)))
         ELSE <<Head(t)>> \o StripThink(Tail(t))

IsNotFence(tok) == tok \notin {"fence", "fence-json"}

\* the two replacements that drop the code-fence markers, with or without
\* the json tag
StripFences(t) == SelectSeq(t, IsNotFence)

\* indexOf: the first index of tok in t, 0 for the -1 of the code
indexOf(t, tok) ==
    IF \E i \in DOMAIN t : t[i] = tok
    THEN CHOOSE i \in DOMAIN t :
            t[i] = tok /\ \A j \in 1..(i - 1) : t[j] # tok
    ELSE 0

\* lastIndexOf: the last index of tok in t, 0 for the -1 of the code
lastIndexOf(t, tok) ==
    IF \E i \in DOMAIN t : t[i] = tok
    THEN CHOOSE i \in DOMAIN t :
            t[i] = tok /\ \A j \in (i + 1)..Len(t) : t[j] # tok
    ELSE 0

\* what JSON.parse throws, as the value of a call that did not return
SyntaxError == [type |-> "SyntaxError", question |-> Undefined,
                guess |-> Undefined, confidence |-> Undefined]

\* the candidate is member lists separated by commas between two braces
IsObjectText(c) ==
    /\ Len(c) >= 3
    /\ Len(c) % 2 = 1
    /\ c[1] = "{"
    /\ c[Len(c)] = "}"
    /\ \A i \in 2..(Len(c) - 1) :
          c[i] = IF i % 2 = 0 THEN "members" ELSE ","

\* JSON.parse of the candidate: the object, or the SyntaxError thrown
JSONparse(c, body) ==
    IF IsObjectText(c) THEN body
    ELSE IF c = <<"{", "}">> THEN EmptyObject
    ELSE SyntaxError

\* .replace(/,\s*([}\]])/g, '$1'): a comma right before a closing brace goes
RECURSIVE DropTrailingCommas(_)
DropTrailingCommas(c) ==
    IF c = <<>> THEN <<>>
    ELSE IF Head(c) = "," /\ Len(c) > 1 /\ c[2] = "}"
         THEN DropTrailingCommas(Tail(c))
         ELSE <<Head(c)>> \o DropTrailingCommas(Tail(c))

\* .replace(/:\s*'([^']*)'/g, ...).replace(/[curly quotes]/g, '"')
FixQuotes(c) ==
    [i \in 1..Len(c) |->
        IF c[i] \in {"members'", "members~"} THEN "members" ELSE c[i]]

\* the clean-up pass of the catch block
Cleaned(c) == FixQuotes(DropTrailingCommas(c))

\* the second parse is not guarded: what it throws leaves extractJson
CatchAgainRethrows(result) == result

\* try { return JSON.parse(cleaned) } catch (e2) { ...; return null }
CatchAgain(result) == IF result = SyntaxError THEN Null ELSE result

\* extractJson(text)
extractJson(text) ==
    IF text.toks = <<>> THEN Null
    ELSE LET t == StripFences(StripThink(text.toks))
             start == indexOf(t, "{")
             end == lastIndexOf(t, "}")
             jsonCandidate == SubSeq(t, start, end)
         IN  IF start = 0 \/ end = 0 THEN Null
             ELSE IF JSONparse(jsonCandidate, text.body) # SyntaxError
                  THEN JSONparse(jsonCandidate, text.body)
                  ELSE CatchAgain(JSONparse(Cleaned(jsonCandidate),
                                            text.body))

(***************************************************************************)
(* Inputs: request bodies, completions                                     *)
(***************************************************************************)
\* the longest history a request carries
MaxHist == 1

\* n copies of the character c
Repeated(c, n) == [i \in 1..n |-> c]

\* a question one character longer than the 200 the handler keeps
LongQuestion == Repeated("z", QuestionMax + 1)

\* a guess one character longer than the 120 the handler keeps
LongGuess == Repeated("g", GuessMax + 1)

\* questions the history of a request can hold
HistoryQuestions == { <<"k">>, <<"a", "?", "k">>, <<"?">> }

HistoryEntries == { [q |-> q, a |-> <<"Y", "e", "s">>] : q \in HistoryQuestions }

RECURSIVE SeqsUpTo(_, _)
SeqsUpTo(S, n) ==
    IF n = 0 THEN { <<>> }
    ELSE LET shorter == SeqsUpTo(S, n - 1)
         IN  shorter \cup { Append(h, e) : h \in shorter, e \in S }

Histories == SeqsUpTo(HistoryEntries, MaxHist)

\* request bodies: an object with a history array, or one whose history is
\* null (the default value applies to an absent member only), with or
\* without the member turns
Bodies ==
    [kind : {"object"}, domain : {"character"}, history : Histories,
     forceFinal : BOOLEAN, hint : {""}, turns : {"absent"}]
    \cup
    [kind : {"history-null"}, domain : {"character"}, history : {<<>>},
     forceFinal : {FALSE}, hint : {""}, turns : {"absent", "given"}]

\* the question members a completion can carry
QuestionValues ==
    { Undefined, Str(<<>>), Str(<<"K", "?">>), Str(<<"k", "?", "a">>),
      Str(<<"m">>), Str(LongQuestion) }

\* the guess members a completion can carry
GuessValues == { Undefined, Str(<<>>), Str(<<"g">>), Str(LongGuess) }

\* the confidence members a completion can carry (numbers in tenths)
ConfidenceValues ==
    { Undefined, Num(-2), Num(8), Num(15), Infinite, Str(<<"0", ".", "8">>) }

\* The objects a completion can denote: asks, guesses and finals with the
\* members of their own shape and with members of the other shape as well,
\* and objects whose type is none of the three.
Objects ==
    [type : {"ask"}, question : QuestionValues, guess : {Undefined},
     confidence : {Undefined}]
    \cup [type : {"ask"}, question : QuestionValues, guess : {Str(<<"g">>)},
          confidence : {Num(8)}]
    \cup [type : {"guess", "final"}, question : {Undefined},
          guess : GuessValues, confidence : ConfidenceValues]
    \cup [type : {"guess", "final"}, question : {Str(<<"m">>)},
          guess : {Str(<<"g">>)}, confidence : {Num(8)}]
    \cup [type : {"banana", "", "undefined"},
          question : {Undefined, Str(<<"m">>)}, guess : {Undefined},
          confidence : {Undefined}]

\* texts from which extractJson gets the object
TextsWithObject ==
    { <<"{", "members", "}">>,
      <<"fence-json", "{", "members", "}", "fence">>,
      <<"<think>", "prose", "{", "}", "</think>", "{", "members", ",", "}">>,
      <<"prose", "{", "members'", "}", "prose">> }

\* texts from which it gets none, or an object without members
TextsWithout ==
    { <<>>, <<"prose">>, <<"{", "members">>, <<"}", "prose", "{">>,
      <<"{", "}">>, <<"{", "junk", "}">>, <<"{", "members", "}", "}">> }

\* an object whose members are those of a well-formed ask
PlainAsk == [type |-> "ask", question |-> Str(<<"m">>), guess |-> Undefined,
             confidence |-> Undefined]

Texts ==
    { [toks |-> <<"{", "members", "}">>, body |-> o] : o \in Objects }
    \cup { [toks |-> t, body |-> PlainAsk] : t \in TextsWithObject }
    \cup { [toks |-> t, body |-> PlainAsk] : t \in TextsWithout }

\* what a completion call answers: resp.ok, and the data of resp.json()
\* (its error member, and the text of choices[0].message.content)
Responses ==
    [ok : {TRUE}, error : {"undefined"}, content : Texts]
    \cup [ok : {FALSE}, error : {"undefined", "model overloaded", ""},
          content : {EmptyText}]
    \cup [ok : {FALSE}, error : {"undefined"},
          content : {[toks |-> <<"{", "members", "}">>, body |-> PlainAsk]}]

(***************************************************************************)
(* Prompt builders                                                         *)
(***************************************************************************)
\* buildSystem(domain): the template with the domain filled in
buildSystem(domain) ==
    [role |-> "system", template |-> "buildSystem", domain |-> domain,
     facts |-> <<>>, forceFinal |-> FALSE, hint |-> "", question |-> <<>>]

\* buildUser(...): the facts in lower case, the forceFinal line, the hint line
buildUser(body) ==
    [role |-> "user", template |-> "buildUser", domain |-> body.domain,
     facts |-> [i \in 1..Len(body.history) |->
                  [q |-> toLowerCase(body.history[i].q),
                   a |-> toLowerCase(body.history[i].a)]],
     forceFinal |-> body.forceFinal, hint |-> body.hint, question |-> <<>>]

\* the corrective message pushed after a repeated question
YouRepeated(question) ==
    [role |-> "system", template |-> "You repeated", domain |-> "",
     facts |-> <<>>, forceFinal |-> FALSE, hint |-> "", question |-> question]

(***************************************************************************)
(* The request: app.post('/api/step') and callFireworks                    *)
(***************************************************************************)
VARIABLES
    apiKey,        \* process.env.FIREWORKS_API_KEY is set
    pc,            \* where the request is: "idle", "awaitPrimary",
                   \* "awaitRepair", "settled", "done"
    history,       \* the history of the request body
    messages,      \* the messages of the handler
    attempts,      \* the attempts of the handler
    obj,           \* the obj of the handler
    settled,       \* how the latest callFireworks ended: its value or error
    interp,        \* the type of the obj callFireworks got from the primary
                   \* text ("null" for no object, "none" before that)
    reinterp,      \* the type of the obj it got from the repair text
                   \* ("none" when no repair call has answered)
    respOk,        \* resp.ok of the latest primary call ("pending" before)
    repairs,       \* repair calls issued by the latest callFireworks
    invocations,   \* calls of callFireworks so far
    primaryCalls,  \* primary completion calls issued so far
    repairCalls,   \* repair completion calls issued so far
    responses,     \* responses sent so far
    response,      \* the response sent: its status and body
    probe,         \* a pure function under examination: its arguments and,
                   \* once applied, its result
    reqs           \* the requests of a server that handles several at once:
                   \* for each its closure (see Closure below)

\* the variables of one request
request == <<apiKey, pc, history, messages, attempts, obj, settled, interp,
             reinterp, respOk, repairs, invocations, primaryCalls,
             repairCalls, responses, response>>

vars == <<apiKey, pc, history, messages, attempts, obj, settled, interp,
          reinterp, respOk, repairs, invocations, primaryCalls, repairCalls,
          responses, response, probe, reqs>>

\* no function is under examination
NoProbe == [fn |-> "none"]

\* no further request is being handled
NoRequests == <<>>

NoResponse == [status |-> 0, action |-> Null, error |-> ""]

Pending == [kind |-> "pending", value |-> Null, error |-> ""]

Value(o) == [kind |-> "value", value |-> o, error |-> ""]

Error(msg) == [kind |-> "error", value |-> Null, error |-> msg]

LoopLimit == 3

\* the loop guard off by one: a fourth attempt
LoopContinuesOnceMore(n) == n <= LoopLimit

\* while (attempts < 3)
LoopContinues(n) == n < LoopLimit

\* the repair condition without its test of the type
NeedsRepairNullOnly(o) == o = Null

\* if (!obj || !obj.type)
NeedsRepair(o) == o = Null \/ ~TypeTruthy(o.type)

\* the credential is never looked at
MissingKeyIgnored(key) == FALSE

\* if (!process.env.FIREWORKS_API_KEY)
MissingKey(key) == ~key

\* if (!obj.question)
MissingQuestion(a) == a.question.s = <<>>

\* an empty guess is let through
MissingGuessIgnored(g) == FALSE

\* if (!obj.guess)
MissingGuess(g) == g.guess.s = <<>>

\* the status of the primary answer is never looked at
NotOkIgnored(r) == FALSE

\* if (!resp.ok)
NotOk(r) == ~r.ok

\* the variables of a request that has not arrived
NoRequestYet ==
    /\ pc = "idle"
    /\ history = <<>>
    /\ messages = <<>>
    /\ attempts = 0
    /\ obj = Null
    /\ settled = Pending
    /\ interp = "none"
    /\ reinterp = "none"
    /\ respOk = "pending"
    /\ repairs = 0
    /\ invocations = 0
    /\ primaryCalls = 0
    /\ repairCalls = 0
    /\ responses = 0
    /\ response = NoResponse

Init ==
    /\ apiKey \in BOOLEAN
    /\ NoRequestYet
    /\ probe = NoProbe
    /\ reqs = NoRequests

\* res.json(obj), or res.status(500).json({ error })
Send(status, action, error) ==
    /\ response' = [status |-> status, action |-> action, error |-> error]
    /\ responses' = responses + 1
    /\ pc' = "done"

\* the catch block logs the error and sends nothing
CatchWithoutResponse(msg) ==
    /\ pc' = "done"
    /\ UNCHANGED <<responses, response>>

\* the catch block: res.status(500).json({ error: e.message || 'Server error' })
Catch(msg) == Send(500, Null, IF msg # "" THEN msg ELSE "Server error")

\* the primary call is sent twice at once
CallFireworksTwice ==
    /\ invocations' = invocations + 1
    /\ primaryCalls' = primaryCalls + 2
    /\ repairs' = 0
    /\ interp' = "none"
    /\ reinterp' = "none"
    /\ respOk' = "pending"
    /\ settled' = Pending
    /\ pc' = "awaitPrimary"
    /\ UNCHANGED <<repairCalls, responses, response>>

\* callFireworks(messages) up to its first await: the primary call is issued
CallFireworks ==
    /\ invocations' = invocations + 1
    /\ primaryCalls' = primaryCalls + 1
    /\ repairs' = 0
    /\ interp' = "none"
    /\ reinterp' = "none"
    /\ respOk' = "pending"
    /\ settled' = Pending
    /\ pc' = "awaitPrimary"
    /\ UNCHANGED <<repairCalls, responses, response>>

\* the loop that fails when its attempts are used up
LoopHeadFailsWhenExhausted(n, o) ==
    IF LoopContinues(n)
    THEN /\ attempts' = n + 1
         /\ CallFireworks
    ELSE /\ attempts' = n
         /\ Catch("Too many repeated questions")
         /\ settled' = Pending
         /\ UNCHANGED <<invocations, primaryCalls, repairCalls, repairs,
                        interp, reinterp, respOk>>

\* the head of the while loop with attempts = n: one more attempt, or the
\* loop ends and res.json(obj) answers
LoopHead(n, o) ==
    IF LoopContinues(n)
    THEN /\ attempts' = n + 1
         /\ CallFireworks
    ELSE /\ attempts' = n
         /\ Send(200, o, "")
         /\ settled' = Pending
         /\ UNCHANGED <<invocations, primaryCalls, repairCalls, repairs,
                        interp, reinterp, respOk>>

\* the break is missing: the loop goes on after an accepted action
BreakMissing(o) ==
    /\ messages' = messages
    /\ LoopHead(attempts, o)

\* break, then res.json(obj)
Break(o) ==
    /\ Send(200, o, "")
    /\ settled' = Pending
    /\ UNCHANGED <<messages, attempts, invocations, primaryCalls,
                   repairCalls, repairs, interp, reinterp, respOk>>

\* an exception that escapes the handler: no response is sent
ThrowUncaught(msg) ==
    /\ pc' = "done"
    /\ settled' = Pending
    /\ UNCHANGED <<messages, attempts, invocations, primaryCalls,
                   repairCalls, repairs, interp, reinterp, respOk,
                   responses, response>>

\* an exception thrown in the handler reaches its catch block
Throw(msg) ==
    /\ Catch(msg)
    /\ settled' = Pending
    /\ UNCHANGED <<messages, attempts, invocations, primaryCalls,
                   repairCalls, repairs, interp, reinterp, respOk>>

\* The handler from the arrival of the request to its first await.
PostStep(body) ==
    /\ pc = "idle"
    /\ history' = body.history
    /\ UNCHANGED <<apiKey, probe, reqs>>
    /\ IF body.kind = "history-null" /\ body.turns = "absent"
       THEN \* the default turns = history.length throws a TypeError
            /\ obj' = obj
            /\ Throw("Cannot read properties of null (reading 'length')")
       ELSE IF MissingKey(apiKey)
       THEN /\ obj' = obj
            /\ Send(500, Null, "Server missing FIREWORKS_API_KEY")
            /\ UNCHANGED <<messages, attempts, settled, invocations,
                           primaryCalls, repairCalls, repairs, interp,
                           reinterp, respOk>>
       ELSE IF body.kind = "history-null"
       THEN \* history.map of buildUser throws a TypeError
            /\ obj' = obj
            /\ Throw("Cannot read properties of null (reading 'map')")
       ELSE /\ messages' = <<buildSystem(body.domain), buildUser(body)>>
            /\ obj' = obj
            /\ LoopHead(0, obj)

\* callFireworks ends: its promise settles, the handler has not resumed yet
Settle(result) ==
    /\ settled' = result
    /\ pc' = "settled"
    /\ UNCHANGED <<apiKey, history, messages, attempts, obj, invocations,
                   primaryCalls, responses, response>>

\* the primary fetch rejects (the network fails): callFireworks rejects
PrimaryRejects ==
    /\ pc = "awaitPrimary"
    /\ respOk' = "rejected"
    /\ Settle(Error("fetch failed"))
    /\ UNCHANGED <<interp, reinterp, repairs, repairCalls, probe, reqs>>

\* What callFireworks does with the answer of the primary call.
PrimaryAnswer(r) ==
    IF NotOk(r)
    THEN \* throw new Error(data?.error || "Fireworks error")
         /\ Settle(Error(IF r.error \notin {"undefined", ""}
                         THEN r.error ELSE "Fireworks error"))
         /\ UNCHANGED <<interp, reinterp, repairs, repairCalls>>
    ELSE LET o == extractJson(r.content)
         IN  /\ interp' = o.type
             /\ reinterp' = reinterp
             /\ IF NeedsRepair(o)
                THEN \* the repair call is issued
                     /\ repairs' = repairs + 1
                     /\ repairCalls' = repairCalls + 1
                     /\ pc' = "awaitRepair"
                     /\ UNCHANGED <<apiKey, history, messages, attempts, obj,
                                    settled, invocations, primaryCalls,
                                    responses, response>>
                ELSE /\ Settle(Value(o))
                     /\ UNCHANGED <<repairs, repairCalls>>

\* the primary call answers
PrimaryResponds(r) ==
    /\ pc = "awaitPrimary"
    /\ respOk' = IF r.ok THEN "ok" ELSE "not ok"
    /\ PrimaryAnswer(r)
    /\ UNCHANGED <<probe, reqs>>

\* the repair fetch rejects: callFireworks rejects
RepairRejects ==
    /\ pc = "awaitRepair"
    /\ Settle(Error("fetch failed"))
    /\ UNCHANGED <<interp, reinterp, respOk, repairs, repairCalls, probe,
                   reqs>>

\* the second test of the type is missing: any object is returned
RepairAnswerReturnsAnyObject(r) ==
    LET o == extractJson(r.content)
    IN  /\ reinterp' = o.type
        /\ IF o = Null
           THEN Settle(Error("Parse error"))
           ELSE Settle(Value(o))

\* What callFireworks does with the answer of the repair call, whose status
\* it does not read.
RepairAnswer(r) ==
    LET o == extractJson(r.content)
    IN  /\ reinterp' = o.type
        /\ IF NeedsRepair(o)
           THEN Settle(Error("Parse error"))
           ELSE Settle(Value(o))

\* the repair call answers
RepairResponds(r) ==
    /\ pc = "awaitRepair"
    /\ RepairAnswer(r)
    /\ UNCHANGED <<interp, respOk, repairs, repairCalls, probe, reqs>>

\* the corrective message takes the place of the earlier ones
LoopBodyKeepsLatestCorrection(o) ==
    IF o.type = "ask"
    THEN LET a == AskNormalised(o)
         IN  /\ obj' = a
             /\ IF MissingQuestion(a)
                THEN Throw("Missing question")
                ELSE IF isRepeat(a.question.s, history)
                THEN /\ messages' = <<messages[1], messages[2],
                                      YouRepeated(a.question.s)>>
                     /\ LoopHead(attempts, a)
                ELSE Break(a)
    ELSE IF o.type \in {"guess", "final"}
    THEN LET g == GuessNormalised(o)
         IN  /\ obj' = g
             /\ IF MissingGuess(g)
                THEN Throw("Missing guess")
                ELSE Break(g)
    ELSE /\ obj' = o
         /\ Throw("Invalid type")

\* The loop body after obj = await callFireworks(messages), to the next
\* await or to the response.
LoopBody(o) ==
    IF o.type = "ask"
    THEN LET a == AskNormalised(o)
         IN  /\ obj' = a
             /\ IF MissingQuestion(a)
                THEN Throw("Missing question")
                ELSE IF isRepeat(a.question.s, history)
                THEN /\ messages' = Append(messages, YouRepeated(a.question.s))
                     /\ LoopHead(attempts, a)
                ELSE Break(a)
    ELSE IF o.type \in {"guess", "final"}
    THEN LET g == GuessNormalised(o)
         IN  /\ obj' = g
             /\ IF MissingGuess(g)
                THEN Throw("Missing guess")
                ELSE Break(g)
    ELSE /\ obj' = o
         /\ Throw("Invalid type")

\* the handler resumes after callFireworks settled
Resume ==
    /\ pc = "settled"
    /\ UNCHANGED <<apiKey, history, probe, reqs>>
    /\ IF settled.kind = "error"
       THEN /\ obj' = obj
            /\ Throw(settled.error)
       ELSE LoopBody(settled.value)

Next ==
    \/ \E body \in Bodies : PostStep(body)
    \/ PrimaryRejects
    \/ \E r \in Responses : PrimaryResponds(r)
    \/ RepairRejects
    \/ \E r \in Responses : RepairResponds(r)
    \/ Resume

Spec == Init /\ [][Next]_vars

(***************************************************************************)
(* Properties                                                              *)
(***************************************************************************)
Recognised == {"ask", "guess", "final"}

\* the types for which !obj || !obj.type holds
Untyped == {"null", "", "undefined"}

\* the counters of the outbound traffic and of the retry loop
Traffic == <<invocations, primaryCalls, repairCalls, attempts, messages>>

\* an ask that isRepeat flags against the history of the request
IsDuplicateAsk(a) == a.type = "ask" /\ isRepeat(a.question.s, history)

\* C1: for every request and every sequence of model responses, the
\* handler invokes callFireworks at most 3 times.
C1_AtMostThreeInvocations == invocations <= 3

C1_Witness == pc = "done" /\ invocations = 3 /\ response.status = 200

\* the request ended at its first attempt that was not a duplicate ask:
\* every earlier attempt was a duplicate ask (one corrective message each),
\* the action sent is the one of the latest attempt, and callFireworks was
\* not invoked after it
C2_Accepted ==
    /\ response.action = obj
    /\ \/ obj.type = "ask" /\ obj.question.s # <<>>
       \/ obj.type \in {"guess", "final"} /\ obj.guess.s # <<>>
    /\ attempts \in 1..3
    /\ invocations = attempts
    /\ primaryCalls = attempts
    /\ Len(messages) = 2 + (attempts - 1)
    /\ \A i \in 3..Len(messages) :
         /\ messages[i].template = "You repeated"
         /\ isRepeat(messages[i].question, history)

\* C2 as stated: the action returned is the action of the first attempt
\* that is not a duplicate ask; the duplicate asks of the earlier attempts
\* are discarded and no call is made after the accepted attempt.
C2_ReturnedIsFirstNonDuplicate ==
    (responses > 0 /\ response.status = 200)
    => ~IsDuplicateAsk(response.action) /\ C2_Accepted

\* C2 as amended: when some attempt produces an action that is not a
\* duplicate ask, the action returned is that of the first such attempt,
\* the duplicate asks of the earlier attempts are discarded and no call is
\* made after the accepted attempt; a duplicate ask is returned only when
\* all 3 attempts produced duplicate asks.
C2_FirstAcceptedIsReturned ==
    (responses > 0 /\ response.status = 200)
    => IF IsDuplicateAsk(response.action)
       THEN attempts = 3 /\ Len(messages) = 5
       ELSE C2_Accepted

C2_Witness ==
    /\ responses = 1
    /\ response.status = 200
    /\ attempts = 2
    /\ history = <<[q |-> <<"k">>, a |-> <<"Y", "e", "s">>]>>
    /\ messages[3].question = <<"K", "?">>
    /\ response.action.type = "ask"
    /\ response.action.question.s = <<"m">>

\* C3: when all 3 attempts produce duplicate asks the request succeeds with
\* the action of the third attempt, and no fourth call is made.
C3_ExhaustedReturnsLast ==
    /\ Len(messages) <= 5
    /\ Len(messages) = 5 =>
        /\ pc = "done"
        /\ responses = 1
        /\ response.status = 200
        /\ response.action = obj
        /\ obj.type = "ask"
        /\ obj.question.s = messages[5].question
        /\ invocations = 3
        /\ primaryCalls = 3

C3_Witness ==
    /\ Len(messages) = 5
    /\ pc = "done"
    /\ messages[3].question # messages[5].question

\* C4 as stated: within one callFireworks, a repair call is issued exactly
\* once if the primary text yields no object or an object whose type is not
\* one of ask, guess, final, and is not issued otherwise.
C4_RepairUnlessRecognised ==
    interp # "none" => (repairs = 1 <=> interp \notin Recognised)

\* C4 as amended: within one callFireworks, a repair call is issued exactly
\* once if the primary text yields no object or an object whose type is
\* absent or falsy, and is not issued otherwise (an object with any truthy
\* type, recognised or not, is returned without a repair call); there is
\* never more than one repair call per invocation.
C4_RepairIffUntyped ==
    /\ repairs \in {0, 1}
    /\ repairCalls <= invocations
    /\ interp = "none" => repairs = 0
    /\ interp # "none" => (repairs = 1 <=> interp \in Untyped)

C4_Witness ==
    /\ pc = "settled"
    /\ interp = ""
    /\ repairs = 1
    /\ settled.kind = "value"

\* the state of a request whose repair text gave no object with a type
C5_State ==
    reinterp \in Untyped =>
        /\ repairs = 1
        /\ \/ pc = "settled" /\ settled = Error("Parse error")
           \/ /\ pc = "done"
              /\ response = [status |-> 500, action |-> Null,
                             error |-> "Parse error"]

C5_Step == reinterp \in Untyped => UNCHANGED Traffic

\* C5: if the text of the repair call still yields no object with a type,
\* callFireworks fails with "Parse error"; the handler makes no further
\* call and the request ends with a 500 response.
C5_ParseErrorEnds == []C5_State /\ [][C5_Step]_vars

C5_Witness ==
    /\ pc = "done"
    /\ reinterp = "undefined"
    /\ attempts = 2
    /\ response.error = "Parse error"

\* the state of a request whose primary call answered with a status that
\* is not a success
C6_State ==
    respOk = "not ok" =>
        /\ interp = "none"
        /\ repairs = 0
        /\ \/ pc = "settled" /\ settled.kind = "error"
           \/ pc = "done" /\ response.status = 500 /\ response.action = Null

C6_Step == respOk = "not ok" => UNCHANGED Traffic

\* C6: when the primary call answers with a non-success status,
\* callFireworks fails at once (no repair call); the handler makes no later
\* attempt and the request ends with a 500 response, whatever attempts
\* remain and whatever an earlier attempt produced.
C6_UpstreamFailureEnds == []C6_State /\ [][C6_Step]_vars

C6_Witness ==
    /\ respOk = "not ok"
    /\ pc = "done"
    /\ attempts = 2
    /\ Len(messages) = 3
    /\ response.error = "model overloaded"

\* at most one response; it is a success with an action or a 500 with a
\* message
C7_State ==
    /\ responses <= 1
    /\ pc = "done" <=> responses = 1
    /\ responses = 0 => response = NoResponse
    /\ responses = 1 =>
        \/ /\ response.status = 200
           /\ response.error = ""
           /\ response.action.type \in Recognised
        \/ /\ response.status = 500
           /\ response.action = Null
           /\ response.error # ""
    /\ settled.kind = "error" => pc = "settled"

\* a failure of callFireworks becomes the 500 response with its message
C7_Step ==
    (pc = "settled" /\ settled.kind = "error") =>
        /\ responses' = 1
        /\ response'.status = 500
        /\ response'.error =
              (IF settled.error # "" THEN settled.error ELSE "Server error")

\* C7: every request gets at most one response, exactly one once the
\* handler has ended; it is a success carrying an action or a 500 carrying
\* an error message, and every failure raised in the handler or in
\* callFireworks is answered with the 500 form.
C7_OneResponse == []C7_State /\ [][C7_Step]_vars

C7_Witness ==
    /\ pc = "done"
    /\ responses = 1
    /\ response.status = 500
    /\ response.error = "fetch failed"
    /\ repairs = 1

\* C8: without the credential the request is answered with a 500 at once:
\* no message is built and no call, primary or repair, is made.
C8_NoKeyNoCalls ==
    ~apiKey =>
        /\ invocations = 0
        /\ primaryCalls = 0
        /\ repairCalls = 0
        /\ messages = <<>>
        /\ pc \in {"idle", "done"}
        /\ pc = "done" => responses = 1 /\ response.status = 500

C8_Witness ==
    /\ ~apiKey
    /\ pc = "done"
    /\ response.error = "Server missing FIREWORKS_API_KEY"

\* what the handler rejects: a type that is none of the three, an ask with
\* no question left after truncation, a guess or final with no guess left
InvalidAction(o) ==
    \/ o.type \notin Recognised
    \/ o.type = "ask" /\ slice(StringOrEmpty(o.question), QuestionMax) = <<>>
    \/ /\ o.type \in {"guess", "final"}
       /\ slice(StringOrEmpty(o.guess), GuessMax) = <<>>

C9_Step ==
    (pc = "settled" /\ settled.kind = "value" /\ InvalidAction(settled.value))
    => /\ pc' = "done"
       /\ response'.status = 500
       /\ UNCHANGED Traffic

\* C9: on any attempt, an action that callFireworks returns with a type
\* other than ask, guess, final, an ask with an empty question or a guess or
\* final with an empty guess ends the request with a 500 at that attempt:
\* no further call is made and no success is sent.
C9_InvalidActionEnds == [][C9_Step]_vars

C9_Witness ==
    /\ pc = "done"
    /\ attempts = 2
    /\ Len(messages) = 3
    /\ response.status = 500
    /\ response.error = "Missing question"

\* C10: every action sent in a success has exactly one shape populated: an
\* ask has a non-empty question and no guess or confidence, a guess or
\* final has a non-empty guess and a confidence and no question.
C10_ExactlyOneShape ==
    response.status = 200 =>
        \/ /\ response.action.type = "ask"
           /\ response.action.question.k = "string"
           /\ response.action.question.s # <<>>
           /\ response.action.guess = Undefined
           /\ response.action.confidence = Undefined
        \/ /\ response.action.type \in {"guess", "final"}
           /\ response.action.guess.k = "string"
           /\ response.action.guess.s # <<>>
           /\ response.action.confidence.k = "number"
           /\ response.action.question = Undefined


(***************************************************************************)
(* C11                                                                     *)
(***************************************************************************)
\* kept is the first min(limit, length) characters of whole
C11_FirstChars(kept, whole, limit) ==
    /\ Len(kept) = IF Len(whole) < limit THEN Len(whole) ELSE limit
    /\ \A i \in 1..Len(kept) : kept[i] = whole[i]

\* the confidence in tenths the response must carry for the c of the model
C11_Clamped(c) ==
    IF c.k = "number"
    THEN IF c.n > 10 THEN 10 ELSE IF c.n < 0 THEN 0 ELSE c.n
    ELSE 0

\* C11: in every success response, the soft-fail one included, the question
\* of an ask is the first min(200, length) characters of the question of the
\* model, the guess of a guess or final is the first min(120, length)
\* characters of the guess of the model, and the confidence is the
\* confidence of the model clamped to [0, 1] when it is a finite number and
\* 0 otherwise.
C11_TruncatedAndClamped ==
    [][(pc = "settled" /\ settled.kind = "value" /\ response'.status = 200)
        => LET o == settled.value
               a == response'.action
           IN  /\ a.type = o.type
               /\ a.type = "ask"
                    => /\ o.question.k = "string"
                       /\ a.question.k = "string"
                       /\ C11_FirstChars(a.question.s, o.question.s, 200)
               /\ a.type \in {"guess", "final"}
                    => /\ o.guess.k = "string"
                       /\ a.guess.k = "string"
                       /\ C11_FirstChars(a.guess.s, o.guess.s, 120)
                       /\ a.confidence = Num(C11_Clamped(o.confidence))
               /\ a.type \in {"ask", "guess", "final"}]_vars

\* a guess cut to 120 characters with its confidence of 1.5 clamped to 1
C11_Witness ==
    /\ response.status = 200
    /\ response.action.type = "guess"
    /\ Len(response.action.guess.s) = 120
    /\ response.action.confidence = Num(10)

(***************************************************************************)
(* C12                                                                     *)
(***************************************************************************)
\* the questions a completion can carry, as the handler reads them
C12_Candidates == { StringOrEmpty(v) : v \in QuestionValues }

\* with an empty history no call has been retried and no corrective message
\* has been appended
C12_State ==
    /\ \A q \in C12_Candidates : ~isRepeat(q, <<>>)
    /\ (history = <<>> /\ pc # "idle")
        => /\ attempts <= 1
           /\ invocations <= 1
           /\ primaryCalls <= 1
           /\ Len(messages) <= 2

\* with an empty history the handler answers an ask with a non-empty
\* question by that ask, at once
C12_Step ==
    (/\ history = <<>>
     /\ pc = "settled"
     /\ settled.kind = "value"
     /\ settled.value.type = "ask"
     /\ StringOrEmpty(settled.value.question) # <<>>)
    => /\ response'.status = 200
       /\ response'.action.type = "ask"
       /\ response'.action.question = Str(slice(settled.value.question.s, 200))
       /\ invocations' = 1
       /\ primaryCalls' = 1
       /\ messages' = messages
       /\ Len(messages') = 2

\* C12: with an empty history isRepeat is false for every candidate, so the
\* handler never retries: an ask with a non-empty question on the first
\* attempt is returned after exactly one call of the inference client and no
\* corrective message is appended.
C12_EmptyHistoryNoRetry == []C12_State /\ [][C12_Step]_vars

\* an ask returned to a request without history after one call
C12_Witness ==
    /\ history = <<>>
    /\ response.status = 200
    /\ response.action.type = "ask"
    /\ response.action.question = Str(<<"K", "?">>)
    /\ invocations = 1
    /\ Len(messages) = 2

(***************************************************************************)
(* isRepeat on its own: every question and history of a bounded set        *)
(***************************************************************************)
\* the longest question given to isRepeat
MaxProbeLen == 2

\* the most entries that surround the entry of interest in a history
MaxPad == 1

\* a letter that is a stop word, a letter in both cases, punctuation, space
ProbeChars == {"a", "k", "K", "?", " "}

ProbeQuestions == SeqsUpTo(ProbeChars, MaxProbeLen)

\* a history entry that none of the questions resembles
Filler == [q |-> <<"z", "z">>, a |-> <<"N", "o">>]

\* a history with the question q between before and after other entries
Padded(q, before, after) ==
    Repeated(Filler, before)
        \o << [q |-> q, a |-> <<"Y", "e", "s">>] >>
        \o Repeated(Filler, after)

ProbeHistories ==
    { <<>> }
    \cup { Padded(q, p[1], p[2]) :
              q \in ProbeQuestions,
              p \in { pp \in (0..MaxPad) \X (0..MaxPad) :
                         pp[1] + pp[2] <= MaxPad } }

RepeatInit ==
    /\ apiKey = TRUE
    /\ NoRequestYet
    /\ reqs = NoRequests
    /\ probe \in [fn : {"isRepeat"}, question : ProbeQuestions,
                  history : ProbeHistories, applied : {FALSE},
                  repeat : {FALSE}]

\* isRepeat(question, history) is called and returns
ApplyIsRepeat ==
    /\ probe.fn = "isRepeat"
    /\ ~probe.applied
    /\ probe' = [probe EXCEPT !.applied = TRUE,
                              !.repeat = isRepeat(probe.question,
                                                  probe.history)]
    /\ UNCHANGED <<request, reqs>>

RepeatNext == ApplyIsRepeat

RepeatSpec == RepeatInit /\ [][RepeatNext]_vars

(***************************************************************************)
(* C13                                                                     *)
(***************************************************************************)
\* C13: isRepeat(candidate, history) returns true whenever the question of
\* some history entry is identical to the candidate or differs from it only
\* in letter case and punctuation (the normalized forms are equal), wherever
\* that entry sits in the history.
C13_SameNormalisedIsRepeat ==
    (probe.fn = "isRepeat" /\ probe.applied)
    => ((\E i \in 1..Len(probe.history) :
            norm(probe.history[i].q) = norm(probe.question))
        => probe.repeat)

\* a question found again, in another case and with punctuation, in an
\* entry that is not the latest
C13_Witness ==
    /\ probe.fn = "isRepeat"
    /\ probe.applied
    /\ probe.repeat
    /\ probe.question = <<"K", "?">>
    /\ Len(probe.history) = 2
    /\ probe.history[1].q = <<"k">>
    /\ probe.history[2] = Filler

(***************************************************************************)
(* C14                                                                     *)
(***************************************************************************)
\* the normalized form of the question of h is not empty
C14_NotEmpty(h) == norm(h.q) # <<>>

\* C14: emptiness alone never flags a duplicate: for a candidate whose
\* normalized form is empty isRepeat returns true only if the history holds
\* a question whose normalized form is empty too, and a candidate whose
\* normalized form is not empty is flagged only if it is flagged against the
\* history entries whose normalized form is not empty.
C14_EmptinessNeverFlags ==
    (probe.fn = "isRepeat" /\ probe.applied /\ probe.repeat)
    => IF norm(probe.question) = <<>>
       THEN \E i \in 1..Len(probe.history) : norm(probe.history[i].q) = <<>>
       ELSE isRepeat(probe.question, SelectSeq(probe.history, C14_NotEmpty))

(***************************************************************************)
(* C15                                                                     *)
(***************************************************************************)
\* while attempt k is under way the messages are the system and the user
\* message followed by k - 1 corrective system messages
C15_State ==
    pc \in {"awaitPrimary", "awaitRepair", "settled"}
    => /\ attempts \in 1..3
       /\ Len(messages) = 2 + (attempts - 1)
       /\ messages[1].role = "system"
       /\ messages[1].template = "buildSystem"
       /\ messages[2].role = "user"
       /\ messages[2].template = "buildUser"
       /\ \A i \in 3..Len(messages) :
            /\ messages[i].role = "system"
            /\ messages[i].template = "You repeated"

\* the messages are built when the request arrives; from then on a step
\* leaves them alone or appends the corrective message that names the
\* truncated question just rejected, the i-th after attempt i
C15_Step ==
    IF messages = <<>>
    THEN \/ messages' = <<>>
         \/ \E body \in Bodies :
               /\ body.history = history'
               /\ messages' = <<buildSystem(body.domain), buildUser(body)>>
    ELSE \/ messages' = messages
         \/ /\ pc = "settled"
            /\ settled.kind = "value"
            /\ settled.value.type = "ask"
            /\ isRepeat(slice(settled.value.question.s, 200), history)
            /\ Len(messages) = 2 + (attempts - 1)
            /\ messages' =
                 messages \o
                   << [role |-> "system", template |-> "You repeated",
                       domain |-> "", facts |-> <<>>, forceFinal |-> FALSE,
                       hint |-> "",
                       question |-> slice(settled.value.question.s, 200)] >>

\* C15: the messages sent on attempt k (1..3) are the original system and
\* user message followed by exactly k - 1 corrective system messages in
\* attempt order, the i-th naming the truncated question rejected on attempt
\* i; messages are never removed, reordered or rewritten.
C15_MessagesAppendOnly == []C15_State /\ [][C15_Step]_vars

\* the third attempt under way with two corrective messages that name the
\* two questions rejected, in their order
C15_Witness ==
    /\ pc = "awaitPrimary"
    /\ attempts = 3
    /\ Len(messages) = 4
    /\ messages[3].question = <<"K", "?">>
    /\ messages[4].question = <<"k", "?", "a">>

(***************************************************************************)
(* extractJson on its own: every text of a bounded set                     *)
(***************************************************************************)
\* the most lexical pieces of a text given to extractJson
MaxToks == 4

\* the lexical pieces extractJson tells apart
ProbeTokens ==
    {"<think>", "</think>", "fence", "{", "}", "members", "members'", ",",
     "prose"}

ProbeTexts ==
    { [toks |-> t, body |-> PlainAsk] : t \in SeqsUpTo(ProbeTokens, MaxToks) }

ExtractInit ==
    /\ apiKey = TRUE
    /\ NoRequestYet
    /\ reqs = NoRequests
    /\ probe \in [fn : {"extractJson"}, text : ProbeTexts,
                  applied : {FALSE}, parsed : {Null}]

\* extractJson(text) is called and returns or throws
ApplyExtractJson ==
    /\ probe.fn = "extractJson"
    /\ ~probe.applied
    /\ probe' = [probe EXCEPT !.applied = TRUE,
                              !.parsed = extractJson(probe.text)]
    /\ UNCHANGED <<request, reqs>>

ExtractNext == ApplyExtractJson

ExtractSpec == ExtractInit /\ [][ExtractNext]_vars

(***************************************************************************)
(* C17                                                                     *)
(***************************************************************************)
\* the text once the think blocks and the fences are gone
C17_CleanedText == StripFences(StripThink(probe.text.toks))

\* the span from the first opening to the last closing brace of t
C17_Span(t) ==
    LET opens == { i \in 1..Len(t) : t[i] = "{" }
        closes == { i \in 1..Len(t) : t[i] = "}" }
        first == CHOOSE i \in opens : \A j \in opens : i <= j
        last == CHOOSE i \in closes : \A j \in closes : j <= i
    IN  IF first <= last THEN [i \in 1..(last - first + 1) |-> t[first + i - 1]]
        ELSE <<>>

\* C17: extractJson never raises: it returns an object or null, and null
\* when the input is empty, when the cleaned text has no opening or no
\* closing brace, when its first opening brace lies after its last closing
\* brace, and when the strict parse and the parse after the repair pass both
\* fail.
C17_NeverRaises ==
    (probe.fn = "extractJson" /\ probe.applied)
    => LET t == C17_CleanedText
       IN  /\ probe.parsed # SyntaxError
           /\ probe.parsed \in {Null, EmptyObject, probe.text.body}
           /\ probe.text.toks = <<>> => probe.parsed = Null
           /\ ("{" \notin Range(t) \/ "}" \notin Range(t))
                => probe.parsed = Null
           /\ (\A i, j \in 1..Len(t) : (t[i] = "{" /\ t[j] = "}") => j < i)
                => probe.parsed = Null
           /\ ("{" \in Range(t) /\ "}" \in Range(t)
               /\ JSONparse(C17_Span(t), probe.text.body) = SyntaxError
               /\ JSONparse(Cleaned(C17_Span(t)), probe.text.body)
                    = SyntaxError)
                => probe.parsed = Null

\* a span between braces that neither parse accepts: null
C17_Witness ==
    /\ probe.fn = "extractJson"
    /\ probe.applied
    /\ probe.text.toks = <<"{", "prose", "}">>
    /\ probe.parsed = Null

(***************************************************************************)
(* The request when every completion call ends and the handler resumes.    *)
(* The answers are one of each kind the handler and callFireworks tell     *)
(* apart: a new question, a question of the history, no question, a guess, *)
(* no guess, a type that is none of the three, a text without an object,   *)
(* and a status that is not ok.                                            *)
(***************************************************************************)
LiveObjects ==
    { o \in Objects :
        \/ /\ o.type = "ask"
           /\ o.question \in {Undefined, Str(<<"K", "?">>), Str(<<"m">>)}
           /\ o.guess = Undefined
        \/ /\ o.type = "guess"
           /\ o.guess \in {Undefined, Str(<<"g">>)}
           /\ o.confidence = Num(8)
           /\ o.question = Undefined
        \/ /\ o.type = "banana"
           /\ o.question = Undefined }

LiveResponses ==
    { r \in Responses :
        /\ r.content.toks \in { <<>>, <<"prose">>, <<"{", "members", "}">> }
        /\ r.content.body \in LiveObjects
        /\ r.error \in {"undefined", "model overloaded"} }

\* a completion call in flight answers or fails
Answered ==
    \/ PrimaryRejects
    \/ \E r \in LiveResponses : PrimaryResponds(r)
    \/ RepairRejects
    \/ \E r \in LiveResponses : RepairResponds(r)

FairNext ==
    \/ \E body \in Bodies : PostStep(body)
    \/ PrimaryRejects
    \/ \E r \in LiveResponses : PrimaryResponds(r)
    \/ RepairRejects
    \/ \E r \in LiveResponses : RepairResponds(r)
    \/ Resume

\* every call in flight ends (it returns or fails), and the handler resumes
\* once the promise of callFireworks has settled
FairSpec ==
    Init /\ [][FairNext]_vars /\ WF_vars(Answered) /\ WF_vars(Resume)

(***************************************************************************)
(* C18                                                                     *)
(***************************************************************************)
\* Done (an action was returned) or Failed (an error was returned)
C18_Terminal ==
    /\ pc = "done"
    /\ responses = 1
    /\ \/ response.status = 200 /\ response.action # Null
       \/ response.status = 500 /\ response.error # ""

\* a request that has arrived ends in Done or Failed
C18_Ends == (pc # "idle") ~> C18_Terminal

\* once the request has ended nothing changes and no call is issued
C18_Stable == [][pc = "done" => UNCHANGED vars]_vars

\* a corrective retry starts only when the attempt under way has ended with
\* a duplicate ask
C18_Entry ==
    [][(messages # <<>> /\ messages' # messages)
        => /\ pc = "settled"
           /\ settled.kind = "value"
           /\ settled.value.type = "ask"
           /\ isRepeat(slice(settled.value.question.s, 200), history)
           /\ pc' \in {"awaitPrimary", "done"}]_vars

\* C18: provided every outbound call eventually returns or fails, every
\* request eventually reaches Done or Failed; once it is there no further
\* outbound call is made and no state changes; CorrectedRetry is entered only
\* from Attempting, after a duplicate ask.
C18_Terminates == C18_Ends /\ C18_Stable /\ C18_Entry

\* a request done after a corrected retry
C18_Witness ==
    /\ C18_Terminal
    /\ response.status = 200
    /\ attempts = 2
    /\ Len(messages) = 3

(***************************************************************************)
(* C19                                                                     *)
(***************************************************************************)
\* one primary call for each attempt, at most one repair call for each
\* primary call, at most six calls
C19_State ==
    /\ primaryCalls = attempts
    /\ primaryCalls = invocations
    /\ repairCalls <= primaryCalls
    /\ repairs <= 1
    /\ primaryCalls <= 3
    /\ primaryCalls + repairCalls <= 6

\* a step issues at most one call and only when none is left in flight: a
\* repair call as the primary call of the same attempt answers, a primary
\* call as the request arrives or as the attempt before has ended with a
\* duplicate ask
C19_Step ==
    LET primaries == primaryCalls' - primaryCalls
        repairing == repairCalls' - repairCalls
    IN  /\ primaries \in {0, 1}
        /\ repairing \in {0, 1}
        /\ primaries + repairing <= 1
        /\ pc = "awaitRepair" => primaries + repairing = 0
        /\ repairing = 1
            => /\ pc = "awaitPrimary"
               /\ respOk' = "ok"
               /\ pc' = "awaitRepair"
               /\ attempts' = attempts
               /\ repairs = 0
        /\ primaries = 1
            => /\ pc' = "awaitPrimary"
               /\ attempts' = attempts + 1
               /\ \/ pc = "idle" /\ attempts = 0
                  \/ /\ pc = "settled"
                     /\ settled.kind = "value"
                     /\ settled.value.type = "ask"
                     /\ isRepeat(slice(settled.value.question.s, 200),
                                 history)

\* C19: the outbound calls of a request are strictly sequential (no two in
\* flight), each repair call directly follows the primary call of the same
\* attempt, the primary call of attempt k + 1 is issued only after attempt k
\* ended with a duplicate ask, and a request makes at most 6 outbound calls
\* (3 primary and 3 repair).
C19_SequentialCalls == []C19_State /\ [][C19_Step]_vars

\* six calls: three primary calls, each followed by its repair call
C19_Witness ==
    /\ primaryCalls = 3
    /\ repairCalls = 3
    /\ pc = "done"
    /\ response.status = 200

(***************************************************************************)
(* Two requests at once.  A call of the handler is kept as one record, its *)
(* closure: req.body, where the call stands (pc), how the latest           *)
(* callFireworks ended, the response sent, and its variables messages,     *)
(* attempts and obj; besides these the completion calls it has issued      *)
(* (sent) and the answers it has consumed (answers).  The steps of the     *)
(* handler are functions from closure to closure, so that a request run    *)
(* alone is their composition.  The server keeps the control part of each  *)
(* call and the frame that holds its variables.                            *)
(***************************************************************************)
Requests == {"r1", "r2"}

NoBody == [kind |-> "none", domain |-> "", history |-> <<>>,
           forceFinal |-> FALSE, hint |-> "", turns |-> "absent"]

\* the closure of a handler that has not been called
NotArrived ==
    [body |-> NoBody, pc |-> "idle", settled |-> Pending,
     response |-> NoResponse, sent |-> <<>>, answers |-> <<>>,
     messages |-> <<>>, attempts |-> 0, obj |-> Null]

\* let messages, let obj, let attempts
Locals(c) == [messages |-> c.messages, attempts |-> c.attempts, obj |-> c.obj]

\* the rest of a closure
Control(c) ==
    [body |-> c.body, pc |-> c.pc, settled |-> c.settled,
     response |-> c.response, sent |-> c.sent, answers |-> c.answers]

Closure(control, locals) ==
    [body |-> control.body, pc |-> control.pc, settled |-> control.settled,
     response |-> control.response, sent |-> control.sent,
     answers |-> control.answers, messages |-> locals.messages,
     attempts |-> locals.attempts, obj |-> locals.obj]

\* res.json(obj), or res.status(500).json({ error })
Sent(c, status, action, error) ==
    [c EXCEPT !.pc = "done", !.settled = Pending,
              !.response = [status |-> status, action |-> action,
                            error |-> error]]

\* the catch block
Caught(c, msg) == Sent(c, 500, Null, IF msg # "" THEN msg ELSE "Server error")

\* attempts++; callFireworks(messages): the primary call goes out with the
\* messages as they are
Called(c) ==
    [c EXCEPT !.attempts = @ + 1, !.pc = "awaitPrimary", !.settled = Pending,
              !.sent = Append(@, [call |-> "primary", messages |-> c.messages,
                                  raw |-> EmptyText])]

\* the head of the while loop
Looped(c) ==
    IF LoopContinues(c.attempts) THEN Called(c) ELSE Sent(c, 200, c.obj, "")

\* the handler from the arrival of the request to its first await
Arrived(c, body, key) ==
    LET c1 == [c EXCEPT !.body = body]
    IN  IF body.kind = "history-null" /\ body.turns = "absent"
        THEN Caught(c1, "Cannot read properties of null (reading 'length')")
        ELSE IF MissingKey(key)
        THEN Sent(c1, 500, Null, "Server missing FIREWORKS_API_KEY")
        ELSE IF body.kind = "history-null"
        THEN Caught(c1, "Cannot read properties of null (reading 'map')")
        ELSE Looped([c1 EXCEPT
                       !.messages = <<buildSystem(body.domain), buildUser(body)>>,
                       !.attempts = 0,
                       !.obj = Null])

\* callFireworks ends
Settled(c, result) == [c EXCEPT !.pc = "settled", !.settled = result]

\* callFireworks with the answer of its primary call (a.rejected: the fetch
\* failed)
PrimaryConsumed(c, a) ==
    IF a.rejected THEN Settled(c, Error("fetch failed"))
    ELSE IF NotOk(a.r)
    THEN Settled(c, Error(IF a.r.error \notin {"undefined", ""}
                          THEN a.r.error ELSE "Fireworks error"))
    ELSE LET o == extractJson(a.r.content)
         IN  IF NeedsRepair(o)
             THEN [c EXCEPT !.pc = "awaitRepair",
                            !.sent = Append(@, [call |-> "repair",
                                                messages |-> <<>>,
                                                raw |-> a.r.content])]
             ELSE Settled(c, Value(o))

\* callFireworks with the answer of its repair call
RepairConsumed(c, a) ==
    IF a.rejected THEN Settled(c, Error("fetch failed"))
    ELSE LET o == extractJson(a.r.content)
         IN  IF NeedsRepair(o) THEN Settled(c, Error("Parse error"))
             ELSE Settled(c, Value(o))

\* the call in flight ends with the answer a
Consumed(c, a) ==
    LET c1 == [c EXCEPT !.answers = Append(@, a)]
    IN  IF c.pc = "awaitPrimary" THEN PrimaryConsumed(c1, a)
        ELSE RepairConsumed(c1, a)

\* the handler after obj = await callFireworks(messages)
Resumed(c) ==
    IF c.settled.kind = "error" THEN Caught(c, c.settled.error)
    ELSE LET o == c.settled.value
         IN  IF o.type = "ask"
             THEN LET a == AskNormalised(o)
                      c1 == [c EXCEPT !.obj = a]
                  IN  IF MissingQuestion(a) THEN Caught(c1, "Missing question")
                      ELSE IF isRepeat(a.question.s, c.body.history)
                      THEN Looped([c1 EXCEPT
                                     !.messages =
                                        Append(@, YouRepeated(a.question.s))])
                      ELSE Sent(c1, 200, a, "")
             ELSE IF o.type \in {"guess", "final"}
             THEN LET g == GuessNormalised(o)
                      c1 == [c EXCEPT !.obj = g]
                  IN  IF MissingGuess(g) THEN Caught(c1, "Missing guess")
                      ELSE Sent(c1, 200, g, "")
             ELSE Caught([c EXCEPT !.obj = o], "Invalid type")

\* a closure with its handler resumed if callFireworks has ended
Resolved(c) == IF c.pc = "settled" THEN Resumed(c) ELSE c

\* the request with this body run alone: its closure once it has consumed
\* the answers
RECURSIVE SoloAfter(_, _, _)
SoloAfter(body, key, answers) ==
    IF answers = <<>> THEN Arrived(NotArrived, body, key)
    ELSE Consumed(Resolved(SoloAfter(body, key,
                                     SubSeq(answers, 1, Len(answers) - 1))),
                  answers[Len(answers)])

\* messages, obj and attempts are declared outside the handler: one frame
FrameOfModule(r) == "r1"

\* let messages (line 173), let obj, let attempts (line 178) are declared in
\* the handler: every call has a frame of its own
Frame(r) == r

\* the closure of the request r as its handler sees it
ClosureOf(r) == Closure(reqs.control[r], reqs.frames[Frame(r)])

\* the handler of r goes on to the closure c
Put(r, c) ==
    reqs' = [control |-> [reqs.control EXCEPT ![r] = Control(c)],
             frames |-> [reqs.frames EXCEPT ![Frame(r)] = Locals(c)]]

\* a body with a history array and nothing else
PlainBody(h) ==
    [kind |-> "object", domain |-> "character", history |-> h,
     forceFinal |-> FALSE, hint |-> "", turns |-> "absent"]

\* the same request with other forceFinal, hint, domain and turns
Otherwise(b) ==
    [b EXCEPT !.forceFinal = TRUE, !.hint = "h", !.domain = "animal",
              !.turns = "given"]

AskedK == << [q |-> <<"k">>, a |-> <<"Y", "e", "s">>] >>

TwoBodies ==
    { PlainBody(<<>>), PlainBody(AskedK), Otherwise(PlainBody(AskedK)),
      [PlainBody(<<>>) EXCEPT !.kind = "history-null"],
      [PlainBody(<<>>) EXCEPT !.kind = "history-null", !.turns = "given"] }

\* the answers of a completion call: a question of the history, a new
\* question, a text without an object, a status that is not ok
TwoResponses ==
    { r \in Responses :
        IF r.ok
        THEN /\ r.content.body.type = "ask"
             /\ r.content.body.guess = Undefined
             /\ \/ /\ r.content.toks = <<"{", "members", "}">>
                   /\ r.content.body.question
                        \in {Str(<<"K", "?">>), Str(<<"m">>)}
                \/ /\ r.content.toks = <<"prose">>
                   /\ r.content.body.question = Str(<<"m">>)
        ELSE r.error = "model overloaded" }

TwoAnswers == [rejected : {FALSE}, r : TwoResponses]

TwoInit ==
    /\ apiKey \in BOOLEAN
    /\ NoRequestYet
    /\ probe = NoProbe
    /\ reqs = [control |-> [r \in Requests |-> Control(NotArrived)],
               frames |-> [r \in Requests |-> Locals(NotArrived)]]

\* the request r arrives and its handler runs to its first await
Arrive(r, body) ==
    /\ reqs.control[r].pc = "idle"
    /\ Put(r, Arrived(ClosureOf(r), body, apiKey))
    /\ UNCHANGED <<request, probe>>

\* the call in flight of r ends, callFireworks goes on
Answer(r, a) ==
    /\ reqs.control[r].pc \in {"awaitPrimary", "awaitRepair"}
    /\ Put(r, Consumed(ClosureOf(r), a))
    /\ UNCHANGED <<request, probe>>

\* the handler of r resumes
Continue(r) ==
    /\ reqs.control[r].pc = "settled"
    /\ Put(r, Resumed(ClosureOf(r)))
    /\ UNCHANGED <<request, probe>>

TwoNext ==
    \/ \E r \in Requests, body \in TwoBodies : Arrive(r, body)
    \/ \E r \in Requests, a \in TwoAnswers : Answer(r, a)
    \/ \E r \in Requests : Continue(r)

TwoSpec == TwoInit /\ [][TwoNext]_vars

(***************************************************************************)
(* C16                                                                     *)
(***************************************************************************)
\* every request that has arrived stands where it would stand alone, with
\* the same calls sent, the same response and the same variables
C16_State ==
    \A r \in Requests :
        reqs.control[r].pc # "idle"
        => LET c == Resolved(ClosureOf(r))
               s == Resolved(SoloAfter(reqs.control[r].body, apiKey,
                                       reqs.control[r].answers))
           IN  /\ c.sent = s.sent
               /\ c.response = s.response
               /\ c.pc = s.pc
               /\ c.messages = s.messages
               /\ c.attempts = s.attempts
               /\ c.obj = s.obj

\* a step of one request leaves the other request and the variables it
\* reads alone
C16_Step ==
    \A r, q \in Requests :
        (r # q /\ reqs'.control[r] # reqs.control[r])
        => /\ reqs'.control[q] = reqs.control[q]
           /\ reqs'.frames[Frame(q)] = reqs.frames[Frame(q)]

\* C16: requests that interleave at the suspension points of their outbound
\* calls do not affect one another: each has its own messages, attempts and
\* candidate action, and under every interleaving of two requests the
\* outbound messages and the final response of each are those of the same
\* request run alone with the same inputs and the same model responses.
C16_NoInterference == []C16_State /\ [][C16_Step]_vars

\* both requests done, one after a corrected retry, the other at once
C16_Witness ==
    /\ reqs # NoRequests
    /\ reqs.control["r1"].pc = "done"
    /\ reqs.control["r2"].pc = "done"
    /\ reqs.control["r1"].response.status = 200
    /\ reqs.control["r2"].response.status = 200
    /\ Len(reqs.control["r1"].sent) = 2
    /\ Len(reqs.control["r2"].sent) = 1
    /\ reqs.control["r1"].body.history = reqs.control["r2"].body.history

(***************************************************************************)
(* C20                                                                     *)
(***************************************************************************)
\* the two bodies differ at most in forceFinal, hint, domain and turns
C20_SameHistory(b1, b2) == b1.kind = b2.kind /\ b1.history = b2.history

\* the corrective messages of a closure
C20_Correctives(c) == SubSeq(c.messages, 3, Len(c.messages))

\* C20: the control flow of the handler depends on the request only through
\* history: two requests that differ only in forceFinal, hint, domain or
\* turns and receive the same model responses have the same number of
\* attempts, the same corrective messages and the same final response.
C20_OnlyHistoryMatters ==
    \A r, q \in Requests :
        (/\ reqs.control[r].pc # "idle"
         /\ reqs.control[q].pc # "idle"
         /\ C20_SameHistory(reqs.control[r].body, reqs.control[q].body)
         /\ reqs.control[r].answers = reqs.control[q].answers)
        => LET c == Resolved(ClosureOf(r))
               d == Resolved(ClosureOf(q))
           IN  /\ c.attempts = d.attempts
               /\ C20_Correctives(c) = C20_Correctives(d)
               /\ c.response = d.response

=========================================================================
